---- MODULE Spec2Model ----
(***************************************************************************)
(* Model of the SDET report tool (src/sdet.py): the aggregation of the     *)
(* per-platform JSON documents (aggregate_all_data), the status classifier *)
(* (requirement_1 and the bucket sort of main) and the TAP scenario line   *)
(* classification of requirement_2.                                        *)
(*                                                                         *)
(* Strings that the program takes apart (test names, scenario text) are    *)
(* sequences of one-character strings; strings it only compares (platform  *)
(* ids, status words, dictionary keys) are TLA+ strings.  A Python dict,   *)
(* which keeps insertion order, is a sequence of <<key, value>> pairs with *)
(* distinct keys.                                                          *)
(***************************************************************************)
EXTENDS Integers, Sequences, FiniteSets, TLC

VARIABLES
    pc,                 \* position of main: "start", "load", "fold", "task1", "sort", "render",
                        \* "task2", "pages", "done"; "exit" after sys.exit(1), "crash" after
                        \* an exception nothing catches
    report_type,        \* main: the --report_type option (1, 2 or 3)
    json_files,         \* main: the file stems glob() listed, in discovery order
    file_idx,           \* main: index in json_files of the document being processed (0 before the first)
    docs,               \* the documents read so far, in processing order (history of the inputs)
    tests_dkt,          \* aggregate_all_data: the record list of the document being folded
    rec_idx,            \* aggregate_all_data: index in tests_dkt of the next record to fold
    platforms_dkt_data, \* main: the AggregatedTest-map (main_dkt of aggregate_all_data)
    all_platforms_id,   \* main: the platform ids (file stems) of the documents seen
    tests_status_dkt,   \* main: the bucket structure ('failed', 'successful', 'all_platforms_id')
    classifier_runs,    \* the completed runs of the status classifier: "main", "fresh", "in_place"
    summary,            \* the input_data_dkt the summary page was generated from (<<>>: no page yet)
    detail_idx,         \* requirement_2: index of the next (bucket, test, platform) to expand
    written,            \* requirement_2: the (bucket, test, platform) written so far, in order
    pages,              \* main: the (test, platform) a detail page was generated for
    sr_tap,             \* requirement_2: the raw scenario text being expanded
    scenario_idx,       \* requirement_2: index of the next line of sr_tap.split('\n')
    all_scenarios       \* requirement_2: the 'ok' / 'not_ok' / 'skipped' lists built so far

vars == <<pc, report_type, json_files, file_idx, docs, tests_dkt, rec_idx, platforms_dkt_data,
          all_platforms_id, tests_status_dkt, classifier_runs, summary, detail_idx, written,
          pages, sr_tap, scenario_idx, all_scenarios>>

main_vars == <<pc, report_type, json_files, file_idx, docs, tests_dkt, rec_idx,
               platforms_dkt_data, all_platforms_id, tests_status_dkt, classifier_runs,
               summary, detail_idx, written, pages>>

\* What only task 2 of main and the rendering change.
detail_vars == <<report_type, summary, detail_idx, written, pages>>

tap_vars == <<sr_tap, scenario_idx, all_scenarios>>

-----------------------------------------------------------------------------
(* Bounds of the model.                                                    *)

\* The number of records held by all the documents of one run together.
MaxRecords == 3

\* The number of tokens a raw scenario text is made of.
MaxTokens == 4

\* The number of runs of the status classifier on one AggregatedTest-map.
MaxClassifierRuns == 2

\* The number of records held by all the documents of one run with detail pages.
MaxDetailRecords == 2

-----------------------------------------------------------------------------
(* Sequences and Python's insertion-ordered dict.                          *)

Range(s) == {s[i] : i \in 1..Len(s)}

Min(a, b) == IF a <= b THEN a ELSE b

\* The keys of a dict, in insertion order.
Keys(d) == [i \in 1..Len(d) |-> d[i][1]]

KeySet(d) == {d[i][1] : i \in 1..Len(d)}

\* k in d
Has(d, k) == \E i \in 1..Len(d) : d[i][1] = k

\* d[k]
Get(d, k) == d[CHOOSE i \in 1..Len(d) : d[i][1] = k][2]

\* d.get(k, default)
GetOr(d, k, default) == IF Has(d, k) THEN Get(d, k) ELSE default

\* d[k] = v and d.update({k: v}): an existing key keeps its place, a new one goes last.
Put(d, k, v) ==
    IF Has(d, k)
    THEN [i \in 1..Len(d) |-> IF d[i][1] = k THEN <<k, v>> ELSE d[i]]
    ELSE Append(d, <<k, v>>)

\* The dict as a mapping, its insertion order forgotten.
AsSet(d) == Range(d)

-----------------------------------------------------------------------------
(* Strings as sequences of characters.                                     *)

\* ord(c) of the characters test names are made of.
CodePoint(c) ==
    CASE c = "/" -> 47
      [] c = "B" -> 66
      [] c = "a" -> 97
      [] c = "b" -> 98
      [] c = "d" -> 100

\* s < t for Python strings: lexicographic by code point, a proper prefix first.
StrLess(s, t) ==
    \E i \in 1..(Min(Len(s), Len(t)) + 1) :
        /\ \A j \in 1..(i - 1) : s[j] = t[j]
        /\ \/ i > Len(s) /\ i <= Len(t)
           \/ i <= Len(s) /\ i <= Len(t) /\ CodePoint(s[i]) < CodePoint(t[i])

\* The place of key k in the ascending list s.
RECURSIVE InsertSorted(_, _)
InsertSorted(s, k) ==
    IF s = <<>> THEN <<k>>
    ELSE IF StrLess(k, Head(s)) THEN <<k>> \o s
    ELSE <<Head(s)>> \o InsertSorted(Tail(s), k)

\* sorted(keys): the keys in ascending order.
RECURSIVE sorted(_)
sorted(keys) ==
    IF keys = <<>> THEN <<>>
    ELSE InsertSorted(sorted(Tail(keys)), Head(keys))

\* The index of the last "/" of path p, 0 when it has none.
LastSep(p) ==
    IF \E i \in 1..Len(p) : p[i] = "/"
    THEN CHOOSE i \in 1..Len(p) : p[i] = "/" /\ \A j \in (i + 1)..Len(p) : p[j] # "/"
    ELSE 0

\* os.path.basename(p): what follows the last "/".
basename(p) == SubSeq(p, LastSep(p) + 1, Len(p))

-----------------------------------------------------------------------------
(* The inputs: records, documents, files.                                  *)

\* The raw 'sr_test_name' values: "b" and "d/b" share the base name "b".
TestNames == {<<"b">>, <<"d", "/", "b">>, <<"B">>, <<"a">>}

\* The 'sr_ts_id' values of the records.
PlatformIds == {"A", "B"}

\* The 'sr_test_cases' values.
TestCases == {5}

\* The 'sr_tests_failed' values.
TestsFailed == {0, 2}

\* The 'sr_tap' text of the records of a run: "ok 1 - x".
SampleTap == <<"o", "k", " ", "1", " ", "-", " ", "x">>

\* The records a document's 'data' list is made of (RawResult).
\* The test "b" runs on both platforms, the others on platform "A" only, and
\* "d/b" has no failed test case.
RawResults ==
    {r \in [sr_test_name : TestNames, sr_ts_id : PlatformIds, sr_test_cases : TestCases,
            sr_tests_failed : TestsFailed, sr_tap : {SampleTap}] :
        /\ r.sr_test_name # <<"b">> => r.sr_ts_id = "A"
        /\ r.sr_test_name = <<"d", "/", "b">> => r.sr_tests_failed = 0}

\* The stems of the *.json files the directory may hold.
FileStems == {"A", "B"}

\* All sequences over S of length at most n.
SeqsUpTo(S, n) == UNION {[1..k -> S] : k \in 0..n}

\* The sequences over S without a repeated element.
DistinctSeqs(S) ==
    {s \in SeqsUpTo(S, Cardinality(S)) : \A i, j \in 1..Len(s) : i # j => s[i] # s[j]}

\* What a file can hold: text that is no JSON, an empty JSON value, an object
\* without a 'data' field, or an object whose 'data' is a list of records.
DocKinds == {"unparsable", "empty", "no_data", "data"}

\* The number of records of the documents read so far.
RecordsRead == LET RECURSIVE Sum(_)
                   Sum(ds) == IF ds = <<>> THEN 0 ELSE Len(Head(ds).data) + Sum(Tail(ds))
               IN  Sum(docs)

-----------------------------------------------------------------------------
(* json_to_dict and aggregate_all_data.                                    *)

\* json_to_dict(json_file): FALSE for text that does not load and for an empty
\* value, the loaded object otherwise.
json_to_dict(doc) ==
    IF doc.kind = "unparsable" THEN FALSE
    ELSE IF doc.kind = "empty" THEN FALSE
    ELSE TRUE

\* platform_tests_data.get('data', []): the record list, empty when the field is missing.
DataOf(doc) == IF doc.kind = "data" THEN doc.data ELSE <<>>

\* The status aggregate_all_data computes for one record.
StatusOf(test) == IF test.sr_tests_failed = 0 THEN "OK" ELSE "FAILED"

\* test.update({'status': status}): the record as it is stored.
WithStatus(test) == [status |-> StatusOf(test)] @@ test

\* Mutant of MergedStatus: the status of the record folded last replaces the entry's.
MergedStatus_LastRecordWins(current, status) == status

\* Mutant of MergedStatus: an entry already present keeps its status.
MergedStatus_KeepsCurrent(current, status) == current

\* The overall status of an entry already present after a record of status `status`.
MergedStatus(current, status) ==
    IF status = "FAILED" /\ current # "FAILED" THEN "FAILED" ELSE current

\* Mutant of UpdatedPlatforms: the per-platform map is replaced, not updated.
UpdatedPlatforms_Replaces(platforms_id, platform_id, test) == <<<<platform_id, test>>>>

\* Mutant of UpdatedPlatforms: a platform id already present keeps its first record.
UpdatedPlatforms_KeepsFirst(platforms_id, platform_id, test) ==
    IF Has(platforms_id, platform_id) THEN platforms_id ELSE Append(platforms_id, <<platform_id, test>>)

\* main_dkt[test_name]['platforms_id'].update({platform_id: test})
UpdatedPlatforms(platforms_id, platform_id, test) == Put(platforms_id, platform_id, test)

\* One iteration of the loop of aggregate_all_data: the record `test` folded into main_dkt.
FoldRecordInto(main_dkt, test) ==
    LET test_name   == basename(test.sr_test_name)
        platform_id == test.sr_ts_id
        status      == StatusOf(test)
        stored      == WithStatus(test)
    IN  IF Has(main_dkt, test_name)
        THEN LET entry == Get(main_dkt, test_name)
             IN  Put(main_dkt, test_name,
                     [name         |-> entry.name,
                      status       |-> MergedStatus(entry.status, status),
                      platforms_id |-> UpdatedPlatforms(entry.platforms_id, platform_id, stored)])
        ELSE Put(main_dkt, test_name,
                 [name         |-> test_name,
                  status       |-> status,
                  platforms_id |-> <<<<platform_id, stored>>>>])

\* aggregate_all_data(main_dkt, tests_dkt) on a non-empty record list: every record folded in turn.
RECURSIVE aggregate_all_data(_, _)
aggregate_all_data(main_dkt, tests) ==
    IF tests = <<>> THEN main_dkt
    ELSE aggregate_all_data(FoldRecordInto(main_dkt, Head(tests)), Tail(tests))

-----------------------------------------------------------------------------
(* requirement_1 and the bucket sort of main.                              *)

\* Mutant of PlatformInfo: every platform is given the overall status of the test.
PlatformInfo_OverallStatus(test_values) ==
    LET ids == test_values.platforms_id
    IN  <<<<"status", [i \in 1..Len(ids) |-> <<ids[i][1], test_values.status>>]>>>>

\* platform_info of requirement_1: under 'status', the status of each platform of the entry.
PlatformInfo(test_values) ==
    LET ids == test_values.platforms_id
    IN  <<<<"status", [i \in 1..Len(ids) |-> <<ids[i][1], ids[i][2].status>>]>>>>

\* test_info of requirement_1.
TestInfo(test_values) ==
    [status |-> test_values.status, platforms_id |-> PlatformInfo(test_values)]

\* Mutant of BucketOf: the test of line 561 inverted.
BucketOf_Inverted(test_values) == IF test_values.status # "FAILED" THEN "failed" ELSE "successful"

\* The bucket requirement_1 puts an entry into.
BucketOf(test_values) == IF test_values.status = "FAILED" THEN "failed" ELSE "successful"

\* One iteration of the loop of requirement_1: tests_status_dkt is a defaultdict(dict),
\* so reading a bucket that is not there yet creates it empty.
ClassifyEntry(status_dkt, test_name, test_values) ==
    LET bucket == BucketOf(test_values)
        before == GetOr(status_dkt, bucket, <<>>)
        after  == IF ~Has(before, test_name)
                  THEN Append(before, <<test_name, TestInfo(test_values)>>)
                  ELSE Put(before, test_name, TestInfo(test_values))
    IN  Put(status_dkt, bucket, after)

\* requirement_1(platforms_dkt_data, tests_status_dkt): the entries classified in dict order.
RECURSIVE requirement_1(_, _)
requirement_1(dkt_data, status_dkt) ==
    IF dkt_data = <<>> THEN status_dkt
    ELSE requirement_1(Tail(dkt_data), ClassifyEntry(status_dkt, Head(dkt_data)[1], Head(dkt_data)[2]))

\* Mutant of SortedBucket: the bucket is left in insertion order.
SortedBucket_AsInserted(bucket) == bucket

\* Mutant of SortedBucket: reversed(...) in place of sorted(...).
SortedBucket_Reversed(bucket) == [i \in 1..Len(bucket) |-> bucket[Len(bucket) + 1 - i]]

\* tmp_dict of main: the bucket rebuilt in the order of its sorted keys.
SortedBucket(bucket) ==
    LET keys == sorted(Keys(bucket))
    IN  [i \in 1..Len(keys) |-> <<keys[i], GetOr(bucket, keys[i], <<>>)>>]

\* Lines 739-756 of main: both buckets sorted by key, then the platform list stored.
SortBuckets(status_dkt, platforms) ==
    LET f == Put(status_dkt, "failed", SortedBucket(GetOr(status_dkt, "failed", <<>>)))
        g == Put(f, "successful", SortedBucket(GetOr(f, "successful", <<>>)))
    IN  Put(g, "all_platforms_id", platforms)

-----------------------------------------------------------------------------
(* main.                                                                   *)

NoScenarios == [ok |-> <<>>, not_ok |-> <<>>, skipped |-> <<>>]

TapIdle == sr_tap = <<>> /\ scenario_idx = 0 /\ all_scenarios = NoScenarios

\* main at line 696, the options parsed, for the report types in types.
InitMain(types) ==
    /\ pc = "start"
    /\ report_type \in types
    /\ json_files \in DistinctSeqs(FileStems)
    /\ file_idx = 0
    /\ docs = <<>>
    /\ tests_dkt = <<>>
    /\ rec_idx = 0
    /\ platforms_dkt_data = <<>>
    /\ all_platforms_id = <<>>
    /\ tests_status_dkt = <<>>
    /\ classifier_runs = <<>>
    /\ summary = <<>>
    /\ detail_idx = 0
    /\ written = <<>>
    /\ pages = <<>>
    /\ TapIdle

\* A run with --report_type=1: the summary page only.
Init == InitMain({1})

\* main, lines 696-704: no *.json file ends the run.
GlobJsonFiles ==
    /\ pc = "start"
    /\ pc' = IF Len(json_files) = 0 THEN "exit" ELSE "load"
    /\ UNCHANGED <<json_files, file_idx, docs, tests_dkt, rec_idx, platforms_dkt_data,
                   all_platforms_id, tests_status_dkt, classifier_runs, detail_vars, tap_vars>>

\* Mutant of PcAfterLoad: a loaded document without records counts as folded.
PcAfterLoad_AcceptsNoRecords(doc, last) ==
    IF json_to_dict(doc) = FALSE THEN "exit"
    ELSE IF DataOf(doc) = <<>> THEN (IF last THEN "task1" ELSE "load")
    ELSE "fold"

\* Mutant of PcAfterLoad: a document that cannot be used is skipped, the run goes on.
PcAfterLoad_SkipsBadDocument(doc, last) ==
    IF json_to_dict(doc) = FALSE \/ DataOf(doc) = <<>>
    THEN (IF last THEN "task1" ELSE "load")
    ELSE "fold"

\* main, lines 717-729: where main goes after reading doc: sys.exit(1) when
\* json_to_dict gives nothing usable or aggregate_all_data returns None at once
\* (lines 510-511), the fold loop otherwise.
PcAfterLoad(doc, last) ==
    IF json_to_dict(doc) = FALSE THEN "exit"
    ELSE IF DataOf(doc) = <<>> THEN "exit"
    ELSE "fold"

\* main, lines 707-729 up to the first record: the next file is read, its stem recorded,
\* and aggregate_all_data entered (it returns None at once on an empty record list).
\* The records of the document are drawn from `records`, at most `budget` of them.
LoadDocumentOf(records, budget) ==
    /\ pc = "load"
    /\ file_idx < Len(json_files)
    /\ \E kind \in DocKinds, data \in SeqsUpTo(records, budget - RecordsRead) :
         /\ kind # "data" => data = <<>>
         /\ LET doc == [stem |-> json_files[file_idx + 1], kind |-> kind, data |-> data]
            IN  /\ docs' = Append(docs, doc)
                /\ all_platforms_id' = Append(all_platforms_id, doc.stem)
                /\ pc' = PcAfterLoad(doc, file_idx + 1 = Len(json_files))
                /\ IF pc' = "fold" THEN
                       /\ tests_dkt' = DataOf(doc)
                       /\ rec_idx' = 1
                   ELSE
                       /\ UNCHANGED <<tests_dkt, rec_idx>>
    /\ file_idx' = file_idx + 1
    /\ UNCHANGED <<json_files, platforms_dkt_data, tests_status_dkt, classifier_runs,
                   detail_vars, tap_vars>>

\* The documents of a run with --report_type=1.
LoadDocument == LoadDocumentOf(RawResults, MaxRecords)

\* aggregate_all_data, lines 513-538: one record folded; after the last one main goes on
\* with the next file, or with task 1 when there is none.
FoldRecord ==
    /\ pc = "fold"
    /\ platforms_dkt_data' = FoldRecordInto(platforms_dkt_data, tests_dkt[rec_idx])
    /\ IF rec_idx < Len(tests_dkt) THEN
           /\ rec_idx' = rec_idx + 1
           /\ UNCHANGED <<pc, tests_dkt>>
       ELSE
           /\ rec_idx' = 0
           /\ tests_dkt' = <<>>
           /\ pc' = IF platforms_dkt_data' = <<>> THEN "exit"
                    ELSE IF file_idx < Len(json_files) THEN "load" ELSE "task1"
    /\ UNCHANGED <<json_files, file_idx, docs, all_platforms_id, tests_status_dkt,
                   classifier_runs, detail_vars, tap_vars>>

\* main, lines 732-737: requirement_1 on a fresh bucket structure.
Requirement1 ==
    /\ pc = "task1"
    /\ tests_status_dkt' = requirement_1(platforms_dkt_data, <<>>)
    /\ pc' = IF tests_status_dkt' = <<>> THEN "exit" ELSE "sort"
    /\ UNCHANGED <<json_files, file_idx, docs, tests_dkt, rec_idx, platforms_dkt_data,
                   all_platforms_id, classifier_runs, detail_vars, tap_vars>>

\* main, lines 739-756.
SortStatus ==
    /\ pc = "sort"
    /\ tests_status_dkt' = SortBuckets(tests_status_dkt, all_platforms_id)
    /\ classifier_runs' = <<"main">>
    /\ pc' = "render"
    /\ UNCHANGED <<json_files, file_idx, docs, tests_dkt, rec_idx, platforms_dkt_data,
                   all_platforms_id, detail_vars, tap_vars>>

\* Mutant of PcAfterSummary: task 2 runs whatever the report type.
PcAfterSummary_AlwaysDetail(status, type) == IF status THEN "task2" ELSE "exit"

\* main, lines 774-786: sys.exit(1) when no page was generated; task 2 for the report
\* types 2 and 3; for type 1 nothing is left to do.
PcAfterSummary(status, type) ==
    IF ~status THEN "exit"
    ELSE IF type \in {2, 3} THEN "task2"
    ELSE "done"

\* main, lines 758-786: the summary page is generated from the buckets by the rendering
\* collaborator, which reports success or failure.
GenerateSummary ==
    /\ pc = "render"
    /\ \E status \in BOOLEAN :
          /\ summary' = IF status THEN tests_status_dkt ELSE summary
          /\ pc' = PcAfterSummary(status, report_type)
          /\ detail_idx' = IF pc' = "task2" THEN 1 ELSE detail_idx
    /\ UNCHANGED <<json_files, file_idx, docs, tests_dkt, rec_idx, platforms_dkt_data,
                   all_platforms_id, tests_status_dkt, classifier_runs, report_type, written,
                   pages, tap_vars>>

Next ==
    \/ GlobJsonFiles
    \/ LoadDocument
    \/ FoldRecord
    \/ Requirement1
    \/ SortStatus
    \/ GenerateSummary

Spec == Init /\ [][Next]_vars

\* The status classifier (requirement_1, then the bucket sort) run once more on the
\* unmodified AggregatedTest-map, into a fresh bucket structure.
RerunClassifierFresh ==
    /\ pc = "render"
    /\ Len(classifier_runs) < MaxClassifierRuns
    /\ tests_status_dkt' = SortBuckets(requirement_1(platforms_dkt_data, <<>>), all_platforms_id)
    /\ classifier_runs' = Append(classifier_runs, "fresh")
    /\ UNCHANGED <<pc, json_files, file_idx, docs, tests_dkt, rec_idx, platforms_dkt_data,
                   all_platforms_id, detail_vars, tap_vars>>

\* The same, into the bucket structure the earlier runs filled.
RerunClassifierInPlace ==
    /\ pc = "render"
    /\ Len(classifier_runs) < MaxClassifierRuns
    /\ tests_status_dkt' = SortBuckets(requirement_1(platforms_dkt_data, tests_status_dkt), all_platforms_id)
    /\ classifier_runs' = Append(classifier_runs, "in_place")
    /\ UNCHANGED <<pc, json_files, file_idx, docs, tests_dkt, rec_idx, platforms_dkt_data,
                   all_platforms_id, detail_vars, tap_vars>>

NextRerun ==
    \/ Next
    \/ RerunClassifierFresh
    \/ RerunClassifierInPlace

\* main with the status classifier run again while the buckets are exposed.
SpecRerun == Init /\ [][NextRerun]_vars

-----------------------------------------------------------------------------
(* What has been folded so far.                                            *)

\* The records of the documents ds, in order.
RECURSIVE RecordsOf(_)
RecordsOf(ds) == IF ds = <<>> THEN <<>> ELSE DataOf(Head(ds)) \o RecordsOf(Tail(ds))

\* The records aggregate_all_data has folded so far, in fold order.
Folded ==
    IF pc = "fold"
    THEN RecordsOf(SubSeq(docs, 1, Len(docs) - 1)) \o SubSeq(tests_dkt, 1, rec_idx - 1)
    ELSE RecordsOf(docs)

\* The (base test name, platform id) pair a record is aggregated under.
PairOf(r) == <<basename(r.sr_test_name), r.sr_ts_id>>

\* The record and the stored entry are the same RawResult.
SameRawResult(stored, r) ==
    /\ stored.sr_test_name = r.sr_test_name
    /\ stored.sr_ts_id = r.sr_ts_id
    /\ stored.sr_test_cases = r.sr_test_cases
    /\ stored.sr_tests_failed = r.sr_tests_failed
    /\ stored.sr_tap = r.sr_tap

\* The records s holds at most one record per (test name, platform id).
OnePerPair(s) == \A i, j \in 1..Len(s) : i # j => PairOf(s[i]) # PairOf(s[j])

\* Some platform result stored in the entry has failed-count > 0.
SomePlatformFailed(entry) ==
    \E i \in 1..Len(entry.platforms_id) : entry.platforms_id[i][2].sr_tests_failed > 0

\* Every document has been folded and the run has not been aborted.
AllFolded == pc \in {"task1", "sort", "render", "done"}

-----------------------------------------------------------------------------
(* Claims about the aggregator.                                            *)

\* C1: after every fold step, every AggregatedTest entry has overall status FAILED
\* if and only if at least one platform result stored in its per-platform map has
\* failed-count > 0, also with several records for the same test and platform.
C1_StatusIffStoredFailure ==
    \A i \in 1..Len(platforms_dkt_data) :
        LET entry == platforms_dkt_data[i][2]
        IN  entry.status = "FAILED" <=> SomePlatformFailed(entry)

\* C2: once an AggregatedTest's overall status is FAILED, no later step sets it
\* back to OK (FAILED is absorbing for the rest of the run).
C2_FailedIsAbsorbing ==
    [][\A name \in KeySet(platforms_dkt_data) :
          Get(platforms_dkt_data, name).status = "FAILED"
              => /\ Has(platforms_dkt_data', name)
                 /\ Get(platforms_dkt_data', name).status = "FAILED"]_vars

\* C2 witness: a FAILED test into which an OK record has just been folded.
C2_Witness ==
    /\ Len(Folded) >= 2
    /\ LET last == Folded[Len(Folded)]
       IN  /\ last.sr_tests_failed = 0
           /\ Has(platforms_dkt_data, basename(last.sr_test_name))
           /\ Get(platforms_dkt_data, basename(last.sr_test_name)).status = "FAILED"

\* C3: when the folded records hold at most one result per (test name, platform
\* id), in whatever order they were folded, a test's overall status is FAILED if
\* and only if at least one folded record of that test had failed-count > 0.
C3_StatusIffSomeFoldedFailure ==
    LET folded == Folded
    IN  OnePerPair(folded) =>
            /\ KeySet(platforms_dkt_data) = {basename(folded[i].sr_test_name) : i \in 1..Len(folded)}
            /\ \A name \in KeySet(platforms_dkt_data) :
                  Get(platforms_dkt_data, name).status = "FAILED"
                      <=> \E i \in 1..Len(folded) :
                              /\ basename(folded[i].sr_test_name) = name
                              /\ folded[i].sr_tests_failed > 0

\* C3 witness: three records of distinct pairs folded, a failing one of some test
\* before a passing one of the same test.
C3_Witness ==
    /\ AllFolded
    /\ Len(Folded) = 3
    /\ OnePerPair(Folded)
    /\ \E i, j \in 1..Len(Folded) :
          /\ i < j
          /\ basename(Folded[i].sr_test_name) = basename(Folded[j].sr_test_name)
          /\ Folded[i].sr_tests_failed > 0
          /\ Folded[j].sr_tests_failed = 0

\* The documents ds in the order given by the permutation p of their indices.
Permuted(ds, p) == [i \in 1..Len(ds) |-> ds[p[i]]]

\* The documents ds folded one after the other into main_dkt.
RECURSIVE FoldDocuments(_, _)
FoldDocuments(main_dkt, ds) ==
    IF ds = <<>> THEN main_dkt
    ELSE FoldDocuments(aggregate_all_data(main_dkt, DataOf(Head(ds))), Tail(ds))

\* The AggregatedTest-map as a mapping: per test name its status and its
\* platform-id-to-RawResult mapping, the dict orders forgotten.
AsMapping(main_dkt) ==
    {<<main_dkt[i][1], main_dkt[i][2].status, AsSet(main_dkt[i][2].platforms_id)>> :
        i \in 1..Len(main_dkt)}

\* No two documents supply a record for the same (test name, platform id).
NoSharedPair(ds) ==
    \A i, j \in 1..Len(ds) :
        i # j => {PairOf(r) : r \in Range(ds[i].data)} \cap {PairOf(r) : r \in Range(ds[j].data)} = {}

\* C4: when no two documents supply a record for the same (test name, platform
\* id), folding the documents in any permutation yields the same final map: the
\* same test names, the same status and the same platform mapping per test.
C4_DocumentOrderIrrelevant ==
    (AllFolded /\ NoSharedPair(docs)) =>
        \A p \in Permutations(1..Len(docs)) :
            AsMapping(FoldDocuments(<<>>, Permuted(docs, p))) = AsMapping(platforms_dkt_data)

\* C4 witness: two documents folded that share a test but no pair, one failing
\* it and one passing it.
C4_Witness ==
    /\ AllFolded
    /\ Len(docs) = 2
    /\ NoSharedPair(docs)
    /\ \E r1 \in Range(docs[1].data), r2 \in Range(docs[2].data) :
          /\ basename(r1.sr_test_name) = basename(r2.sr_test_name)
          /\ r1.sr_tests_failed > 0
          /\ r2.sr_tests_failed = 0

\* The index of the last occurrence of the pair pr in the list of pairs ps.
LastOfPair(ps, pr) ==
    CHOOSE i \in 1..Len(ps) : ps[i] = pr /\ \A j \in (i + 1)..Len(ps) : ps[j] # pr

\* C5: last-write-wins per platform per test: the RawResult stored under (test
\* name, platform id) is the most recently folded record with that base test name
\* and platform id, and no earlier record for the pair remains.
C5_LastWriteWins ==
    LET folded == Folded
        pairs  == [i \in 1..Len(folded) |-> PairOf(folded[i])]
    IN  /\ \A i \in 1..Len(folded) :
              LET pr == pairs[i]
              IN  /\ Has(platforms_dkt_data, pr[1])
                  /\ Has(Get(platforms_dkt_data, pr[1]).platforms_id, pr[2])
                  /\ SameRawResult(Get(Get(platforms_dkt_data, pr[1]).platforms_id, pr[2]),
                                   folded[LastOfPair(pairs, pr)])
        /\ \A i \in 1..Len(platforms_dkt_data) :
              LET ids == platforms_dkt_data[i][2].platforms_id
              IN  /\ \A j, k \in 1..Len(ids) : j # k => ids[j][1] # ids[k][1]
                  /\ \A j \in 1..Len(ids) :
                        <<platforms_dkt_data[i][1], ids[j][1]>> \in Range(pairs)

\* C5 witness: two different records of the same pair folded, under different
\* raw test names.
C5_Witness ==
    \E i, j \in 1..Len(Folded) :
        /\ i < j
        /\ PairOf(Folded[i]) = PairOf(Folded[j])
        /\ Folded[i].sr_test_name # Folded[j].sr_test_name
        /\ Folded[i].sr_tests_failed # Folded[j].sr_tests_failed

-----------------------------------------------------------------------------
(* Claims about the status classifier.                                     *)

\* The test names of a bucket of tests_status_dkt, in the bucket's order.
BucketKeys(bucket) == Keys(GetOr(tests_status_dkt, bucket, <<>>))

\* requirement_1 has filled the bucket structure.
Classified == tests_status_dkt # <<>>

\* The buckets are exposed to rendering.
Exposed == classifier_runs # <<>>

\* C6: requirement_1 on a fresh bucket structure partitions the AggregatedTest-map:
\* every test name of the map is in exactly one bucket, in 'failed' exactly when
\* its overall status is FAILED, and no other name is in a bucket.
C6_BucketsPartitionTheMap ==
    LET failed     == BucketKeys("failed")
        successful == BucketKeys("successful")
    IN  Classified =>
            /\ Range(failed) \cup Range(successful) = KeySet(platforms_dkt_data)
            /\ Range(failed) \cap Range(successful) = {}
            /\ \A i, j \in 1..Len(failed) : i # j => failed[i] # failed[j]
            /\ \A i, j \in 1..Len(successful) : i # j => successful[i] # successful[j]
            /\ \A name \in KeySet(platforms_dkt_data) :
                  name \in Range(failed) <=> Get(platforms_dkt_data, name).status = "FAILED"

\* C6 witness: requirement_1 has just classified three tests, some failed, some not.
C6_Witness ==
    /\ pc = "sort"
    /\ Len(platforms_dkt_data) = 3
    /\ BucketKeys("failed") # <<>>
    /\ BucketKeys("successful") # <<>>

\* The test names ks are in strictly ascending code-point order.
StrictlyAscending(ks) == \A i, j \in 1..Len(ks) : i < j => StrLess(ks[i], ks[j])

\* C7: when the buckets are exposed to rendering, the test names of each bucket
\* are in strictly ascending lexicographic (code-point) order without duplicates,
\* whatever order the tests were folded in.
C7_ExposedBucketsAscending ==
    Exposed =>
        /\ StrictlyAscending(BucketKeys("failed"))
        /\ StrictlyAscending(BucketKeys("successful"))

\* C7 witness: a bucket of three tests exposed, which were not folded in ascending order.
C7_Witness ==
    /\ Exposed
    /\ \E b \in {"failed", "successful"} :
          /\ Len(BucketKeys(b)) = 3
          /\ BucketKeys(b) # Keys(platforms_dkt_data)

\* C8: running the status classifier again on the same unmodified
\* AggregatedTest-map, into a fresh bucket structure or into the one already
\* filled, leaves the buckets identical: keys, order, statuses.
C8_ClassifierIdempotent ==
    [][(Exposed /\ classifier_runs' # classifier_runs)
          => (platforms_dkt_data' = platforms_dkt_data /\ tests_status_dkt' = tests_status_dkt)]_vars

\* C8 witness: the classifier has run again into the filled structure, two tests
\* of one bucket having been folded in descending order.
C8_Witness ==
    /\ Len(classifier_runs) >= 2
    /\ classifier_runs[Len(classifier_runs)] = "in_place"
    /\ \E i, j \in 1..Len(platforms_dkt_data) :
          /\ i < j
          /\ platforms_dkt_data[i][2].status = platforms_dkt_data[j][2].status
          /\ StrLess(platforms_dkt_data[j][1], platforms_dkt_data[i][1])

-----------------------------------------------------------------------------
(* requirement_2: the scenario lines of one raw scenario text.             *)

\* The characters [0-9] matches.
Digits == {"0", "1", "2", "3", "4", "5", "6", "7", "8", "9"}

\* The characters \s matches, among those of the model.
Whitespace == {" ", "\t", "\n", "\r", "\f"}

\* The literal lit stands in line at index i.
LitAt(line, i, lit) ==
    /\ i >= 1
    /\ i + Len(lit) - 1 <= Len(line)
    /\ \A j \in 1..Len(lit) : line[i + j - 1] = lit[j]

\* The characters of line from index i to index j are digits.
DigitsAt(line, i, j) == j <= Len(line) /\ \A k \in i..j : line[k] \in Digits

\* re.search(prefix + r'[0-9]+ -\s', line): somewhere in the line the prefix, one
\* or more digits, " -" and a whitespace character.
SearchNumbered(prefix, line) ==
    \E i \in 1..Len(line), n \in 1..Len(line) :
        /\ LitAt(line, i, prefix)
        /\ DigitsAt(line, i + Len(prefix), i + Len(prefix) + n - 1)
        /\ LitAt(line, i + Len(prefix) + n, <<" ", "-">>)
        /\ i + Len(prefix) + n + 2 <= Len(line)
        /\ line[i + Len(prefix) + n + 2] \in Whitespace

\* re.search(r'ok [0-9]+ -\s', test_scenario)
SearchOk(line) == SearchNumbered(<<"o", "k", " ">>, line)

\* re.search(r'not ok [0-9]+ -\s', test_scenario)
SearchNotOk(line) == SearchNumbered(<<"n", "o", "t", " ", "o", "k", " ">>, line)

\* re.search(r'# SKIP\s', test_scenario)
SearchSkip(line) ==
    \E i \in 1..Len(line) :
        /\ LitAt(line, i, <<"#", " ", "S", "K", "I", "P">>)
        /\ i + 6 <= Len(line)
        /\ line[i + 6] \in Whitespace

\* text.split('\n'): the pieces between the line breaks, empty ones included.
RECURSIVE SplitLines(_)
SplitLines(text) ==
    IF \A i \in 1..Len(text) : text[i] # "\n" THEN <<text>>
    ELSE LET i == CHOOSE k \in 1..Len(text) : text[k] = "\n" /\ \A j \in 1..(k - 1) : text[j] # "\n"
         IN  <<SubSeq(text, 1, i - 1)>> \o SplitLines(SubSeq(text, i + 1, Len(text)))

\* Mutant of ClassifyLine: a line goes to the first list whose pattern it matches
\* only, and to the front of that list.
ClassifyLine_FirstMatchInFront(scenarios, line) ==
    IF SearchOk(line) THEN [scenarios EXCEPT !.ok = <<line>> \o @]
    ELSE IF SearchNotOk(line) THEN [scenarios EXCEPT !.not_ok = <<line>> \o @]
    ELSE IF SearchSkip(line) THEN [scenarios EXCEPT !.skipped = <<line>> \o @]
    ELSE scenarios

\* One iteration of the loop of lines 607-618: all_scenarios is a defaultdict(list),
\* a list never appended to reads as empty.
ClassifyLine(scenarios, line) ==
    [ok      |-> IF SearchOk(line) THEN Append(scenarios.ok, line) ELSE scenarios.ok,
     not_ok  |-> IF SearchNotOk(line) THEN Append(scenarios.not_ok, line) ELSE scenarios.not_ok,
     skipped |-> IF SearchSkip(line) THEN Append(scenarios.skipped, line) ELSE scenarios.skipped]

\* The tokens the raw scenario texts are made of:
\* "not ", "ok 3 - b", "ok 12 -", " # SKIP r", "# SKIP", a tab and a line break.
TapTokens ==
    {<<"n", "o", "t", " ">>,
     <<"o", "k", " ", "3", " ", "-", " ", "b">>,
     <<"o", "k", " ", "1", "2", " ", "-">>,
     <<" ", "#", " ", "S", "K", "I", "P", " ", "r">>,
     <<"#", " ", "S", "K", "I", "P">>,
     <<"\t">>,
     <<"\n">>}

\* The tokens ts put one after the other.
RECURSIVE Flatten(_)
Flatten(ts) == IF ts = <<>> THEN <<>> ELSE Head(ts) \o Flatten(Tail(ts))

\* The raw scenario texts ('sr_tap') expanded.
TapTexts == {Flatten(ts) : ts \in SeqsUpTo(TapTokens, MaxTokens)}

\* requirement_2 on one (test, platform) pair, at line 605: the text is in hand, no
\* line classified yet.
InitTap ==
    /\ pc = "task2"
    /\ json_files = <<>>
    /\ file_idx = 0
    /\ docs = <<>>
    /\ tests_dkt = <<>>
    /\ rec_idx = 0
    /\ platforms_dkt_data = <<>>
    /\ all_platforms_id = <<>>
    /\ tests_status_dkt = <<>>
    /\ classifier_runs = <<>>
    /\ report_type = 2
    /\ summary = <<>>
    /\ detail_idx = 0
    /\ written = <<>>
    /\ pages = <<>>
    /\ sr_tap \in TapTexts
    /\ scenario_idx = 1
    /\ all_scenarios = NoScenarios

\* requirement_2, lines 607-618: the next line of the text classified.
ClassifyScenario ==
    /\ pc = "task2"
    /\ scenario_idx <= Len(SplitLines(sr_tap))
    /\ all_scenarios' = ClassifyLine(all_scenarios, SplitLines(sr_tap)[scenario_idx])
    /\ scenario_idx' = scenario_idx + 1
    /\ UNCHANGED <<main_vars, sr_tap>>

NextTap == ClassifyScenario

\* The scenario loop of requirement_2 on every raw scenario text.
SpecTap == InitTap /\ [][NextTap]_vars

-----------------------------------------------------------------------------
(* Claims about the scenario line classification.                          *)

\* The lines of sr_tap the loop has classified so far.
ClassifiedLines ==
    IF pc = "task2" THEN SubSeq(SplitLines(sr_tap), 1, scenario_idx - 1) ELSE <<>>

\* The line has the form "not ok <digits> - <text>".
NotOkForm(line) ==
    \E n \in 1..Len(line) :
        /\ LitAt(line, 1, <<"n", "o", "t", " ", "o", "k", " ">>)
        /\ DigitsAt(line, 8, 7 + n)
        /\ LitAt(line, 8 + n, <<" ", "-", " ">>)

\* The line holds a SKIP marker.
HasSkipMarker(line) == \E i \in 1..Len(line) : LitAt(line, i, <<"#", " ", "S", "K", "I", "P">>)

\* The line matches the skipped rule: it contains "# SKIP ".
SkippedRule(line) == \E i \in 1..Len(line) : LitAt(line, i, <<"#", " ", "S", "K", "I", "P", " ">>)

\* C9: a scenario line of the form "not ok <digits> - <text>" with no SKIP marker
\* is classified "not ok" only: it is appended to the not_ok list and to neither
\* the ok list nor the skipped list.
C9_NotOkLineIsNotOkOnly ==
    \A line \in Range(ClassifiedLines) :
        (NotOkForm(line) /\ ~HasSkipMarker(line)) =>
            /\ line \in Range(all_scenarios.not_ok)
            /\ line \notin Range(all_scenarios.ok)
            /\ line \notin Range(all_scenarios.skipped)

\* C10: a scenario line that matches both the not-ok rule and the skipped rule is
\* appended to the not_ok list and to the skipped list, and to exactly those two.
C10_NotOkSkipLineInExactlyTwoLists ==
    \A line \in Range(ClassifiedLines) :
        (NotOkForm(line) /\ SkippedRule(line)) =>
            /\ line \in Range(all_scenarios.not_ok)
            /\ line \in Range(all_scenarios.skipped)
            /\ line \notin Range(all_scenarios.ok)


-----------------------------------------------------------------------------
(* requirement_2 and task 2 of main: the per-platform detail of every test. *)

\* A 'sr_tap' text of three lines: "ok 1 - x", "not ok 2 - y", "z # SKIP w".
MixedTap ==
    <<"o", "k", " ", "1", " ", "-", " ", "x", "\n",
      "n", "o", "t", " ", "o", "k", " ", "2", " ", "-", " ", "y", "\n",
      "z", " ", "#", " ", "S", "K", "I", "P", " ", "w">>

\* The records of a run with detail pages that hold a 'sr_tap' text.
TappedResults ==
    [sr_test_name : {<<"b">>, <<"a">>}, sr_ts_id : PlatformIds, sr_test_cases : {10},
     sr_tests_failed : {0, 3}, sr_tap : {SampleTap, MixedTap}]
    \cup
    [sr_test_name : {<<"a">>}, sr_ts_id : PlatformIds, sr_test_cases : {5},
     sr_tests_failed : {7}, sr_tap : {MixedTap}]

\* Records that hold no 'sr_tap' at all.
UntappedResults ==
    [sr_test_name : {<<"b">>}, sr_ts_id : PlatformIds, sr_test_cases : {5},
     sr_tests_failed : {0}]

\* The records a document of a run with detail pages is made of: the test "b" runs
\* on both platforms, the test "a" on platform "A" only; no record that passes
\* every test case holds the three-line text.
DetailResults ==
    {r \in TappedResults \cup UntappedResults :
        /\ r.sr_test_name = <<"a">> => r.sr_ts_id = "A"
        /\ r.sr_tests_failed = 0 /\ "sr_tap" \in DOMAIN r => r.sr_tap = SampleTap}

\* d.get(k, default) on a record: the field when the record has it.
FieldOr(d, k, default) == IF k \in DOMAIN d THEN d[k] ELSE default

\* int(n) of a count the document holds as a JSON integer.
ToInt(n) == n

\* platforms_dkt_data.get(test_name, {}).get('platforms_id', {}).get(platform_id, {}):
\* the stored record of the pair, {} when there is none.
RawOf(dkt_data, test_name, platform_id) ==
    LET entry == GetOr(dkt_data, test_name, <<>>)
    IN  GetOr(FieldOr(entry, "platforms_id", <<>>), platform_id, <<>>)

\* Lines 605-618: the lines of the text classified in turn.
RECURSIVE ClassifyLines(_, _)
ClassifyLines(scenarios, lines) ==
    IF lines = <<>> THEN scenarios
    ELSE ClassifyLines(ClassifyLine(scenarios, Head(lines)), Tail(lines))

\* Mutant of RunStatus: the passed count is the number of 'ok' lines.
RunStatus_PassedFromOkLines(raw) ==
    LET scenarios == ClassifyLines(NoScenarios, SplitLines(raw.sr_tap))
    IN  [scenarios    |-> scenarios,
         total_tests  |-> ToInt(FieldOr(raw, "sr_test_cases", 0)),
         passed_tests |-> Len(scenarios.ok),
         failed_tests |-> ToInt(FieldOr(raw, "sr_tests_failed", 0))]

\* Lines 595-636: what requirement_2 stores for one platform of one test, from the
\* stored record of the pair (the record holds a 'sr_tap').
RunStatus(raw) ==
    LET total_tests  == ToInt(FieldOr(raw, "sr_test_cases", 0))
        failed_tests == ToInt(FieldOr(raw, "sr_tests_failed", 0))
        passed_tests == total_tests - failed_tests
    IN  [scenarios    |-> ClassifyLines(NoScenarios, SplitLines(raw.sr_tap)),
         total_tests  |-> total_tests,
         passed_tests |-> passed_tests,
         failed_tests |-> failed_tests]

\* The status map of a test_info: platform id -> status.
StatusMap(test_info) == GetOr(test_info.platforms_id, "status", <<>>)

\* The loops of lines 584-589: the (bucket, test, platform) visited, in order.
RECURSIVE PairsOfBucket(_, _)
PairsOfBucket(test_status, tests) ==
    IF tests = <<>> THEN <<>>
    ELSE LET test_name == Head(tests)[1]
             ids       == Keys(StatusMap(Head(tests)[2]))
         IN  [i \in 1..Len(ids) |-> <<test_status, test_name, ids[i]>>]
             \o PairsOfBucket(test_status, Tail(tests))

RECURSIVE PairsToExpand(_)
PairsToExpand(status_dkt) ==
    IF status_dkt = <<>> THEN <<>>
    ELSE (IF Head(status_dkt)[1] \in {"failed", "successful"}
          THEN PairsOfBucket(Head(status_dkt)[1], Head(status_dkt)[2])
          ELSE <<>>)
         \o PairsToExpand(Tail(status_dkt))

\* Mutant of WriteRunStatus: every write starts the 'platforms_run_status' of the test anew.
WriteRunStatus_StartsAnew(status_dkt, test_status, test_name, platform_id, run_status) ==
    LET bucket == Get(status_dkt, test_status)
        info   == Get(bucket, test_name)
        after  == [platforms_run_status |-> <<<<platform_id, run_status>>>>] @@ info
    IN  Put(status_dkt, test_status, Put(bucket, test_name, after))

\* Lines 620-643: the run status stored under 'platforms_run_status' of the test,
\* which is created by the first write.
WriteRunStatus(status_dkt, test_status, test_name, platform_id, run_status) ==
    LET bucket == Get(status_dkt, test_status)
        info   == Get(bucket, test_name)
        after  == IF "platforms_run_status" \notin DOMAIN info
                  THEN [platforms_run_status |-> <<<<platform_id, run_status>>>>] @@ info
                  ELSE [info EXCEPT !.platforms_run_status = Put(@, platform_id, run_status)]
    IN  Put(status_dkt, test_status, Put(bucket, test_name, after))



\* The documents of a run with detail pages.
LoadDetailDocument == LoadDocumentOf(DetailResults, MaxDetailRecords)

\* Mutant of ExpandPair: a pair whose record holds no 'sr_tap' is skipped.
ExpandPair_SkipsUntapped ==
    /\ pc = "task2"
    /\ platforms_dkt_data # <<>>
    /\ detail_idx <= Len(PairsToExpand(tests_status_dkt))
    /\ LET pair == PairsToExpand(tests_status_dkt)[detail_idx]
           raw  == RawOf(platforms_dkt_data, pair[2], pair[3])
       IN  IF "sr_tap" \notin DOMAIN raw THEN
               UNCHANGED <<tests_status_dkt, written>>
           ELSE
               /\ tests_status_dkt' =
                      WriteRunStatus(tests_status_dkt, pair[1], pair[2], pair[3], RunStatus(raw))
               /\ written' = Append(written, pair)
    /\ detail_idx' = detail_idx + 1
    /\ UNCHANGED <<pc, report_type, json_files, file_idx, docs, tests_dkt, rec_idx,
                   platforms_dkt_data, all_platforms_id, classifier_runs, summary, pages,
                   tap_vars>>

\* One iteration of the loops of requirement_2, lines 584-643. A stored record
\* without 'sr_tap' makes sr_tap None, and line 607 raises an AttributeError that
\* neither requirement_2 nor main catches.
ExpandPair ==
    /\ pc = "task2"
    /\ platforms_dkt_data # <<>>
    /\ detail_idx <= Len(PairsToExpand(tests_status_dkt))
    /\ LET pair == PairsToExpand(tests_status_dkt)[detail_idx]
           raw  == RawOf(platforms_dkt_data, pair[2], pair[3])
       IN  IF "sr_tap" \notin DOMAIN raw THEN
               /\ pc' = "crash"
               /\ UNCHANGED <<tests_status_dkt, detail_idx, written>>
           ELSE
               /\ tests_status_dkt' =
                      WriteRunStatus(tests_status_dkt, pair[1], pair[2], pair[3], RunStatus(raw))
               /\ written' = Append(written, pair)
               /\ detail_idx' = detail_idx + 1
               /\ pc' = pc
    /\ UNCHANGED <<report_type, json_files, file_idx, docs, tests_dkt, rec_idx,
                   platforms_dkt_data, all_platforms_id, classifier_runs, summary, pages,
                   tap_vars>>

\* requirement_2 returns, lines 581-582 and 645, and main goes on at line 787:
\* None for an empty map makes main sys.exit(1), True lets it generate the pages.
ReturnFromRequirement2 ==
    /\ pc = "task2"
    /\ platforms_dkt_data = <<>> \/ detail_idx > Len(PairsToExpand(tests_status_dkt))
    /\ pc' = IF platforms_dkt_data = <<>> THEN "exit" ELSE "pages"
    /\ UNCHANGED <<report_type, json_files, file_idx, docs, tests_dkt, rec_idx,
                   platforms_dkt_data, all_platforms_id, tests_status_dkt, classifier_runs,
                   summary, detail_idx, written, tap_vars>>
    /\ UNCHANGED pages

\* The (test, platform) that have a 'platforms_run_status', in the order of lines 814-820.
RECURSIVE PagesOfBucket(_)
PagesOfBucket(tests) ==
    IF tests = <<>> THEN <<>>
    ELSE LET ids == Keys(FieldOr(Head(tests)[2], "platforms_run_status", <<>>))
         IN  [i \in 1..Len(ids) |-> <<Head(tests)[1], ids[i]>>] \o PagesOfBucket(Tail(tests))

RECURSIVE PagesToGenerate(_)
PagesToGenerate(status_dkt) ==
    IF status_dkt = <<>> THEN <<>>
    ELSE (IF Head(status_dkt)[1] \in {"failed", "successful"}
          THEN PagesOfBucket(Head(status_dkt)[2])
          ELSE <<>>)
         \o PagesToGenerate(Tail(status_dkt))

\* main, lines 795-838: a page is requested for every expanded pair; a page that
\* is not generated is only reported, the run goes on.
GenerateDetailPages ==
    /\ pc = "pages"
    /\ pages' = PagesToGenerate(tests_status_dkt)
    /\ pc' = "done"
    /\ UNCHANGED <<report_type, json_files, file_idx, docs, tests_dkt, rec_idx,
                   platforms_dkt_data, all_platforms_id, tests_status_dkt, classifier_runs,
                   summary, detail_idx, written, tap_vars>>

\* A run of main with any report type.
InitDetail == InitMain({1, 2, 3})

NextDetail ==
    \/ GlobJsonFiles
    \/ LoadDetailDocument
    \/ FoldRecord
    \/ Requirement1
    \/ SortStatus
    \/ GenerateSummary
    \/ ExpandPair
    \/ ReturnFromRequirement2
    \/ GenerateDetailPages

SpecDetail == InitDetail /\ [][NextDetail]_vars



-----------------------------------------------------------------------------
(* Claims about the detail expansion.                                      *)

\* What requirement_2 has stored for a written (bucket, test, platform).
RunStatusAt(pair) ==
    Get(Get(Get(tests_status_dkt, pair[1]), pair[2]).platforms_run_status, pair[3])

\* The stored record a written (bucket, test, platform) was expanded from.
RawAt(pair) == RawOf(platforms_dkt_data, pair[2], pair[3])

\* C11: for every expanded (test, platform) the stored passed count is the total
\* count minus the failed count of the pair's stored record, and the stored total
\* and failed counts are the record's: none of the three depends on the scenario text.
C11_PassedIsTotalMinusFailed ==
    \A i \in 1..Len(written) :
        LET run_status == RunStatusAt(written[i])
            raw        == RawAt(written[i])
        IN  /\ run_status.total_tests = raw.sr_test_cases
            /\ run_status.failed_tests = raw.sr_tests_failed
            /\ run_status.passed_tests = raw.sr_test_cases - raw.sr_tests_failed

\* Two pairs with total 10 and failed 3 and different scenario texts are expanded:
\* both have 7 passed.
C11_Witness ==
    \E i, j \in 1..Len(written) :
        /\ RawAt(written[i]).sr_tap # RawAt(written[j]).sr_tap
        /\ \A k \in {i, j} :
              /\ RawAt(written[k]).sr_test_cases = 10
              /\ RawAt(written[k]).sr_tests_failed = 3
              /\ RunStatusAt(written[k]).passed_tests = 7



-----------------------------------------------------------------------------
(* Claims about a whole run.                                               *)

\* The directory holds A.json and B.json, each read as one record of the test "b"
\* with 5 test cases, none failed in A.json and 2 failed in B.json.
TwoPlatformRun ==
    /\ Len(docs) = 2
    /\ \A i \in 1..2 :
          /\ docs[i].kind = "data"
          /\ Len(docs[i].data) = 1
          /\ basename(docs[i].data[1].sr_test_name) = <<"b">>
          /\ docs[i].data[1].sr_test_cases = 5
          /\ docs[i].data[1].sr_tests_failed = (IF docs[i].stem = "A" THEN 0 ELSE 2)

\* C12: a run on A.json and B.json, each holding one record of test "b" (A: total 5,
\* failed 0; B: total 5, failed 2), read in either order, ends with the aggregated
\* test FAILED with exactly two platform entries, listed in the 'failed' bucket and
\* not in the 'successful' bucket.
C12_TwoPlatformsEndToEnd ==
    TwoPlatformRun =>
        /\ AllFolded =>
              /\ Has(platforms_dkt_data, <<"b">>)
              /\ Get(platforms_dkt_data, <<"b">>).status = "FAILED"
              /\ Len(Get(platforms_dkt_data, <<"b">>).platforms_id) = 2
        /\ Exposed =>
              /\ <<"b">> \in Range(BucketKeys("failed"))
              /\ <<"b">> \notin Range(BucketKeys("successful"))

\* The platform ids that key a per-platform entry of a classified test.
BucketPlatformIds ==
    UNION {UNION {KeySet(StatusMap(GetOr(tests_status_dkt, bucket, <<>>)[i][2])) :
                      i \in 1..Len(GetOr(tests_status_dkt, bucket, <<>>))} :
               bucket \in {"failed", "successful"}}

\* The platform ids that key a stored record of the AggregatedTest-map.
StoredPlatformIds ==
    UNION {KeySet(platforms_dkt_data[i][2].platforms_id) : i \in 1..Len(platforms_dkt_data)}

\* C15: records are aggregated under the base name of the file they were read from:
\* every platform id that keys a per-platform entry of the buckets is a member of
\* all_platforms_id, and all_platforms_id holds exactly the platform ids seen.
C15_PlatformIdIsFileStem ==
    Exposed =>
        /\ \A i \in 1..Len(docs) : \A k \in 1..Len(docs[i].data) :
              Has(Get(platforms_dkt_data, basename(docs[i].data[k].sr_test_name)).platforms_id,
                  docs[i].stem)
        /\ BucketPlatformIds \subseteq Range(all_platforms_id)
        /\ Range(all_platforms_id) = StoredPlatformIds



\* The loader or the aggregator fails on the document: json_to_dict gives nothing
\* usable, or there is no record to fold.
Unusable(doc) == json_to_dict(doc) = FALSE \/ DataOf(doc) = <<>>

\* C13: when a document read is unparsable or empty the run is aborted there: no
\* later document is read, nothing is classified, and neither the summary page nor
\* any detail page is ever generated.
C13_BadDocumentAbortsTheRun ==
    (\E i \in 1..Len(docs) : Unusable(docs[i])) =>
        /\ pc = "exit"
        /\ Unusable(docs[Len(docs)])
        /\ \A i \in 1..(Len(docs) - 1) : ~Unusable(docs[i])
        /\ tests_status_dkt = <<>>
        /\ summary = <<>>
        /\ written = <<>>
        /\ pages = <<>>

\* A run with detail pages aborted on its second document, an empty one, after the
\* records of the first were folded.
C13_Witness ==
    /\ report_type = 3
    /\ Len(docs) = 2
    /\ docs[2].kind = "empty"
    /\ platforms_dkt_data # <<>>
    /\ pc = "exit"



\* The pair requirement_2 is about to expand has a stored record without 'sr_tap'.
NextPairUntapped ==
    /\ pc = "task2"
    /\ detail_idx <= Len(PairsToExpand(tests_status_dkt))
    /\ "sr_tap" \notin DOMAIN RawAt(PairsToExpand(tests_status_dkt)[detail_idx])

\* Some pair requirement_2 has to expand has a stored record without 'sr_tap'.
SomePairUntapped ==
    \E i \in 1..Len(PairsToExpand(tests_status_dkt)) :
        "sr_tap" \notin DOMAIN RawAt(PairsToExpand(tests_status_dkt)[i])

\* C14: when requirement_2 comes to a (test, platform) whose stored record has no
\* scenario text, the expansion ends there with an error passed to its caller:
\* nothing is written for the pair, no later pair is expanded, no step follows,
\* and requirement_2 never returns success when such a pair exists.
C14_AbsentScenarioTextAborts ==
    [][/\ NextPairUntapped =>
             /\ pc' = "crash"
             /\ written' = written
             /\ tests_status_dkt' = tests_status_dkt
       /\ pc # "crash"
       /\ pc' = "pages" => ~SomePairUntapped]_vars

\* The expansion was aborted on a pair without scenario text after another pair
\* had been written.
C14_Witness ==
    /\ pc = "crash"
    /\ written # <<>>
    /\ detail_idx = Len(written) + 1
    /\ "sr_tap" \notin DOMAIN RawAt(PairsToExpand(tests_status_dkt)[detail_idx])



\* The stored records of the AggregatedTest-map.
StoredRecords ==
    UNION {{platforms_dkt_data[i][2].platforms_id[k][2] :
                k \in 1..Len(platforms_dkt_data[i][2].platforms_id)} :
               i \in 1..Len(platforms_dkt_data)}

\* C16: every stored RawResult has a failed count of at most its total count, and
\* every passed count requirement_2 computes lies between 0 and the total count.
C16_FailedAtMostTotal ==
    /\ \A raw \in StoredRecords : raw.sr_tests_failed <= raw.sr_test_cases
    /\ \A i \in 1..Len(written) :
          /\ 0 <= RunStatusAt(written[i]).passed_tests
          /\ RunStatusAt(written[i]).passed_tests <= RunStatusAt(written[i]).total_tests



-----------------------------------------------------------------------------
(* Claims about the scenario lists.                                        *)

\* The line matches none of the three patterns of lines 609, 613 and 617.
Unmatched(line) == ~SearchOk(line) /\ ~SearchNotOk(line) /\ ~SearchSkip(line)

\* C17: each of the three lists is exactly the subsequence, in line order, of the
\* lines classified so far that match the list's pattern (the searches of lines
\* 609, 613 and 617); a line matching none of them is in no list, and the loop
\* goes on over it.
C17_ListsAreMatchingSubsequences ==
    LET lines == ClassifiedLines
    IN  /\ all_scenarios.ok = SelectSeq(lines, SearchOk)
        /\ all_scenarios.not_ok = SelectSeq(lines, SearchNotOk)
        /\ all_scenarios.skipped = SelectSeq(lines, SearchSkip)
        /\ \A i \in 1..Len(lines) :
              Unmatched(lines[i]) =>
                  lines[i] \notin Range(all_scenarios.ok) \cup Range(all_scenarios.not_ok)
                                  \cup Range(all_scenarios.skipped)
        /\ pc = "task2"
        /\ scenario_idx <= Len(SplitLines(sr_tap)) + 1

\* Three lines are classified: the second matches no pattern and is dropped, the
\* first and the third make up the ok list in that order.
C17_Witness ==
    LET lines == ClassifiedLines
    IN  /\ Len(lines) = 3
        /\ Unmatched(lines[2])
        /\ all_scenarios.ok = <<lines[1], lines[3]>>
        /\ all_scenarios.not_ok = <<>>
        /\ all_scenarios.skipped = <<>>


-----------------------------------------------------------------------------
(* Claims about the classified tests.                                      *)

\* The test_info of every classified test, with its name.
ClassifiedTests ==
    UNION {Range(GetOr(tests_status_dkt, bucket, <<>>)) : bucket \in {"failed", "successful"}}

\* C18: the per-platform status map of every classified test has exactly the
\* platform ids of the test's per-platform map in the AggregatedTest-map, and the
\* status of a platform is OK exactly when the stored record of that platform has
\* no failed test case.
C18_PlatformStatusMirrorsStoredRecord ==
    Exposed =>
        \A test \in ClassifiedTests :
            LET platforms_id == Get(platforms_dkt_data, test[1]).platforms_id
                statuses     == StatusMap(test[2])
            IN  /\ Keys(statuses) = Keys(platforms_id)
                /\ \A i \in 1..Len(statuses) :
                      statuses[i][2] = "OK"
                          <=> Get(platforms_id, statuses[i][1]).sr_tests_failed = 0

\* A classified test with two platforms, one OK and one FAILED.
C18_Witness ==
    /\ Exposed
    /\ \E test \in ClassifiedTests :
          /\ Len(StatusMap(test[2])) = 2
          /\ {StatusMap(test[2])[i][2] : i \in 1..2} = {"OK", "FAILED"}



\* requirement_2 has returned True to main.
ExpansionSucceeded == pc \in {"pages", "done"} /\ report_type \in {2, 3}

\* C19: after requirement_2 has returned success, every classified test has a
\* 'platforms_run_status' for exactly the platform ids of its status map, every
\* (test, platform) was written exactly once, and the stored total and failed
\* counts are those of the pair's stored record.
C19_RunStatusForEveryPlatformOnce ==
    ExpansionSucceeded =>
        /\ \A test \in ClassifiedTests :
              /\ "platforms_run_status" \in DOMAIN test[2]
              /\ Keys(test[2].platforms_run_status) = Keys(StatusMap(test[2]))
        /\ \A i, j \in 1..Len(written) : written[i] = written[j] => i = j
        /\ Range(written) = Range(PairsToExpand(tests_status_dkt))
        /\ \A i \in 1..Len(written) :
              /\ RunStatusAt(written[i]).total_tests = RawAt(written[i]).sr_test_cases
              /\ RunStatusAt(written[i]).failed_tests = RawAt(written[i]).sr_tests_failed

\* requirement_2 has returned success after expanding one test on two platforms.
C19_Witness ==
    /\ ExpansionSucceeded
    /\ Len(written) = 2
    /\ written[1][2] = written[2][2]
    /\ written[1][3] # written[2][3]



-----------------------------------------------------------------------------
(* Claims about the phases of main.                                        *)

\* requirement_2 has been entered.
DetailStarted == detail_idx > 0

\* C20: main works in phases: the buckets are only filled once every document has
\* been read and folded; the summary page is generated from the classified and
\* sorted buckets before the detail expansion starts; once generated the summary
\* is never changed, also when the expansion fails; and the expansion runs for
\* the report types 2 and 3 only.
C20_PhasesInOrder ==
    [][/\ tests_status_dkt' # <<>> =>
             /\ Len(docs') = Len(json_files')
             /\ \A i \in 1..Len(docs') : ~Unusable(docs'[i])
             /\ platforms_dkt_data' = FoldDocuments(<<>>, docs')
       /\ summary = <<>> /\ summary' # <<>> =>
             /\ ~DetailStarted
             /\ classifier_runs # <<>>
             /\ summary' = tests_status_dkt
       /\ DetailStarted' => summary' # <<>> /\ report_type' \in {2, 3}
       /\ pc' \in {"task2", "crash", "pages"} => DetailStarted'
       /\ written' # <<>> \/ pages' # <<>> => DetailStarted'
       /\ summary # <<>> => summary' = summary]_vars

\* The expansion has failed after it had written into the buckets: the summary
\* generated before is what it was.
C20_Witness ==
    /\ pc = "crash"
    /\ written # <<>>
    /\ summary # <<>>
    /\ summary # tests_status_dkt



-----------------------------------------------------------------------------
(* Claims about a document without records.                                *)

\* json_to_dict loads the document, and its 'data' is missing or an empty list.
NoRecords(doc) == json_to_dict(doc) # FALSE /\ DataOf(doc) = <<>>

\* The last document read is one without records.
ReadNoRecords == docs # <<>> /\ NoRecords(docs[Len(docs)])

\* C21: when main reads a document that loads but whose 'data' is an empty list or
\* is missing, the AggregatedTest-map stays what the earlier documents made it,
\* and the run ends there: nothing is classified, no summary page and no detail
\* page is generated, and no step follows.
C21_NoRecordsAbortsTheRun ==
    [][/\ ~ReadNoRecords
       /\ ReadNoRecords' =>
             /\ platforms_dkt_data' = platforms_dkt_data
             /\ platforms_dkt_data' = FoldDocuments(<<>>, docs)
             /\ pc' = "exit"
             /\ tests_status_dkt' = <<>>
             /\ summary' = <<>>
             /\ written' = <<>>
             /\ pages' = <<>>]_vars

\* A run with detail pages ended on its second document, whose 'data' is an empty
\* list, with the records of the first document folded.
C21_Witness ==
    /\ report_type = 2
    /\ Len(docs) = 2
    /\ docs[2].kind = "data"
    /\ docs[2].data = <<>>
    /\ platforms_dkt_data # <<>>
    /\ platforms_dkt_data = FoldDocuments(<<>>, <<docs[1]>>)
    /\ pc = "exit"


====
